---- MODULE Spec2Model ----
(***************************************************************************)
(* A model of src/qc.py, the browser-side driver of the ioos_qc QARTOD     *)
(* tests: file ingestion with delimiter sniffing, the run_tests /          *)
(* make_mask pipeline, the CSV download, and the event handlers with the   *)
(* single yield of plot.                                                    *)
(*                                                                         *)
(* Three specifications share the definitions below:                       *)
(*   SpecSniff  the delimiter sniffing of onload applied to one content;   *)
(*   SpecPipe   run_tests, make_mask and to_csv applied to one dataset     *)
(*              that ingestion can produce;                                *)
(*   Spec       the event handlers over the session state.                 *)
(*                                                                         *)
(* pandas, xarray, numpy and ioos_qc are libraries outside the repository: *)
(* what a decoder returns for a file is part of the file drawn as input,   *)
(* and the flags the engine returns are an input of the step that calls    *)
(* it.  What the driver does with those values is modelled from its code.  *)
(***************************************************************************)
EXTENDS Integers, Sequences, FiniteSets, TLC

VARIABLES
    \* ---- SpecSniff: one run of the sniffing block of onload
    content,          \* evt.target.result, a sequence of characters
    delimiter,        \* the local `delimiter` once the block has run
    \* ---- SpecPipe: one run of the plot or the download pipeline
    call,             \* the arguments and library answers of the run
    ppc,              \* where the run stands
    pdf,              \* the dataset the run works on (df)
    result,           \* what run_tests returned
    mask,             \* what make_mask returned
    csv,              \* what result.to_csv(index=False) returned
    \* ---- Spec: the session
    uploaded_df,      \* the global dataset handle
    options,          \* the <option>s of the three variable selects
    select_value,     \* document.getElementById("select").value
    tasks,            \* coroutines suspended at the yield of plot, oldest first
    loader_display,   \* loadingIndicator.style.display
    message,          \* what the status area shows
    absent,           \* which of the optional elements the page lacks
    pristine,         \* history: the dataset as ingestion last stored it
    last_op,          \* history: the handler that ran last
    outcome,          \* history: how that handler ended
    engine_without_df \* history: run_tests was entered with uploaded_df None

sniffVars == <<content, delimiter>>
pipeVars == <<call, ppc, pdf, result, mask, csv>>
uiVars == <<uploaded_df, options, select_value, tasks, loader_display, message,
            absent, pristine, last_op, outcome, engine_without_df>>
vars == <<sniffVars, pipeVars, uiVars>>

None == "None"

(***************************************************************************)
(* Bounds of the model.                                                    *)
(***************************************************************************)
MaxBody == 3    \* separators following the padding of a sniffed content
MaxRows == 2    \* rows of a decoded table in SpecPipe
MaxTasks == 2   \* coroutines suspended at the yield at one time

(***************************************************************************)
(* Delimiter sniffing: onload, lines 56-63.                                *)
(***************************************************************************)
SampleLen == 1024

Min(a, b) == IF a <= b THEN a ELSE b

\* The whole content instead of its first 1024 characters.
SampleWhole(text) == text

\* content[:1024]
Sample(text) == SubSeq(text, 1, Min(SampleLen, Len(text)))

\* sample.count(ch)
Count(s, ch) == Cardinality({i \in 1..Len(s) : s[i] = ch})

\* ch in sample
Contains(s, ch) == \E i \in 1..Len(s) : s[i] = ch

\* The sniffing with the comma winning whenever the sample holds one.
SniffDelimiterCommaFirst(sample) ==
    IF Contains(sample, ",")
    THEN ","
    ELSE IF Contains(sample, ";") THEN ";"
         ELSE IF Contains(sample, "\t") THEN "\t" ELSE ","

SniffDelimiter(sample) ==
    IF Contains(sample, ";") /\ Count(sample, ";") > Count(sample, ",")
    THEN ";"
    ELSE IF Contains(sample, "\t") /\ Count(sample, "\t") > Count(sample, ",")
         THEN "\t"
         ELSE ","

(***************************************************************************)
(* Datasets.  A pandas DataFrame is its column names in order, its row     *)
(* labels in order and its rows, each a function from column name to cell. *)
(* A cell is a dtype and the text of its value.                            *)
(***************************************************************************)
Cell(t, v) == [t |-> t, v |-> v]
Str(s) == Cell("str", s)
Num(s) == Cell("float", s)
Dt(s) == Cell("datetime", s)
NaN == Num("nan")
NaT == Dt("NaT")

\* pandas isna
IsNa(c) == c.t # "str" /\ c.v \in {"nan", "NaT"}

PaddedTime == " 2020-01-01 "
CleanTime == "2020-01-01"
BadTime == "n/a"

\* The column names of the bundled example, plot lines 223-225.
DefaultVariable == "sea_surface_height_above_sea_level"
DefaultY == "z"
DefaultX == "time"
Columns == <<DefaultX, DefaultY, DefaultVariable>>

Range(s) == {s[i] : i \in 1..Len(s)}

\* pd.RangeIndex(n)
RangeIndex(n) == [i \in 1..n |-> i - 1]

Frame(columns, index, rows) ==
    [kind |-> "frame", columns |-> columns, index |-> index, rows |-> rows]

\* uploaded_df = None
NoFrame == [kind |-> "none", columns |-> <<>>, index |-> <<>>, rows |-> <<>>]

Row(t, z, h) ==
    [c \in Range(Columns) |->
        IF c = DefaultX THEN t ELSE IF c = DefaultY THEN z ELSE h]

EmptyRow == Row(NaT, NaN, NaN)

\* The elements of seq at the positions in keep, in order.
RECURSIVE Pick(_, _, _)
Pick(seq, keep, i) ==
    IF i > Len(seq) THEN <<>>
    ELSE (IF i \in keep THEN <<seq[i]>> ELSE <<>>) \o Pick(seq, keep, i + 1)

\* df.dropna(axis=0, how='all'): the rows keep their labels.
DropnaAll(df) ==
    LET keep == {i \in 1..Len(df.rows) :
                    \E c \in Range(df.columns) : ~IsNa(df.rows[i][c])}
    IN  Frame(df.columns, Pick(df.index, keep, 1), Pick(df.rows, keep, 1))

(***************************************************************************)
(* Ingestion: onload, lines 48-90.  A file is its extension, its content   *)
(* and what the decoder of its format returns for it (pd.read_csv for the  *)
(* text, xarray's to_dataframe().reset_index() for the binary).            *)
(***************************************************************************)
DecodeError == [kind |-> "error", columns |-> <<>>, index |-> <<>>, rows |-> <<>>]

File(ext, text, decoded) == [ext |-> ext, content |-> text, decoded |-> decoded]

\* pd.read_csv(StringIO(content), delimiter=delimiter), line 65
ReadCsv(file, delim) == file.decoded

\* ds.to_dataframe().reset_index(), line 76
OpenDataset(file) == file.decoded

\* df.dropna(axis=0, how='all'), line 77
CleanEmptyRows(df) == DropnaAll(df)

\* The try block up to the assignment of uploaded_df, lines 54-80.

Ingest(file) ==
    IF file.ext = "csv"
    THEN LET df == ReadCsv(file, SniffDelimiter(Sample(file.content)))
         IN  [raised |-> df.kind = "error", df |-> df]
    ELSE IF file.ext = "nc"
         THEN LET df == OpenDataset(file)
              IN  IF df.kind = "error"
                  THEN [raised |-> TRUE, df |-> df]
                  ELSE [raised |-> FALSE, df |-> CleanEmptyRows(df)]
         ELSE [raised |-> TRUE, df |-> DecodeError]

(***************************************************************************)
(* The files and resources the model draws its inputs from.                *)
(***************************************************************************)
HeaderText == <<"t", ",", "z", ",", "h", "\n">>

\* A delimited text of n rows; row nanRow (if any) has an empty measurement.
CsvTable(n, timeText, nanRow) ==
    Frame(Columns, RangeIndex(n),
          [k \in 1..n |->
              Row(Str(timeText), Num(ToString(k)),
                  IF k = nanRow THEN NaN ELSE Num("5"))])

\* A gridded table of n data rows with one all-empty row before data row
\* gap (none when gap = 0; after the last when gap = n + 1).
NcTable(n, gap) ==
    LET len == IF gap = 0 THEN n ELSE n + 1
    IN  Frame(Columns, RangeIndex(len),
              [k \in 1..len |->
                  IF gap # 0 /\ k = gap
                  THEN EmptyRow
                  ELSE Row(Dt(CleanTime), Num(ToString(k)), Num("5"))])

\* The files of the model: delimited texts and gridded files of rowCounts
\* data rows, a measurement missing in row nanRow (0: in none), an empty
\* row before data row gap (0: none); one of each format that its decoder
\* rejects; one of another extension.
Gaps(n) == 0..(n + 1)

CsvFiles(rowCounts, nanRows) ==
    {File("csv", HeaderText, CsvTable(n, t, nanRow)) :
        n \in rowCounts, t \in {PaddedTime, BadTime}, nanRow \in nanRows}
    \cup {File("csv", <<>>, DecodeError)}

NcFiles(rowCounts, gaps) ==
    {File("nc", <<>>, NcTable(m[1], m[2])) :
        m \in {p \in rowCounts \X gaps : p[2] \in Gaps(p[1])}}
    \cup {File("nc", <<>>, DecodeError)}

OtherFiles == {File("txt", HeaderText, DecodeError)}

Files(rowCounts, nanRows, gaps) ==
    CsvFiles(rowCounts, nanRows) \cup NcFiles(rowCounts, gaps) \cup OtherFiles

\* ./water_level_example_test.csv as read by line 423, or the read failing.
ExampleAnswers(maxRows) ==
    {CsvTable(maxRows, CleanTime, 0), DecodeError}

(***************************************************************************)
(* The time conversion of plot, lines 234-235.                             *)
(***************************************************************************)
\* str.strip() on the texts of the model
Strip(text) == IF text = PaddedTime THEN CleanTime ELSE text

\* df[x_var].astype(str).str.strip()
StripCell(c) == Str(Strip(c.v))

\* One element of pd.to_datetime(..., errors="raise").  The texts pandas
\* reads as missing give NaT; a text that is no date raises; whether a
\* bare number is read as a date is left to the input `lenient`.
DateParses(text, lenient) ==
    IF text \in {CleanTime, "nan", "NaT"} THEN TRUE
    ELSE IF text \in {BadTime, PaddedTime} THEN FALSE
    ELSE lenient

ToDatetimeCell(c) == IF c.v \in {"nan", "NaT"} THEN NaT ELSE Dt(c.v)

\* df[col] = values
SetColumn(df, col, values) ==
    Frame(df.columns, df.index,
          [i \in 1..Len(df.rows) |->
              [c \in DOMAIN df.rows[i] |->
                  IF c = col THEN values[i] ELSE df.rows[i][c]]])

\* Lines 234-235 on df, which IS the session's dataset object: the frame
\* returned is what that object holds afterwards, also when line 235 raises.
ConvertTime(df, x_var, lenient) ==
    IF x_var \notin Range(df.columns)
    THEN [raised |-> TRUE, df |-> df]
    ELSE LET stripped == SetColumn(df, x_var,
                              [i \in 1..Len(df.rows) |-> StripCell(df.rows[i][x_var])])
         IN  IF \A i \in 1..Len(stripped.rows) :
                    DateParses(stripped.rows[i][x_var].v, lenient)
             THEN [raised |-> FALSE,
                   df |-> SetColumn(stripped, x_var,
                              [i \in 1..Len(stripped.rows) |->
                                  ToDatetimeCell(stripped.rows[i][x_var])])]
             ELSE [raised |-> TRUE, df |-> stripped]

(***************************************************************************)
(* The configuration: test_params, get_user_config, and the bundled        *)
(* qc_config.json of run_tests lines 165-171.  A configuration is the set  *)
(* of tests it configures.                                                 *)
(***************************************************************************)
Tests == {"gross_range_test", "flat_line_test", "rate_of_change_test", "spike_test"}

Raised == [raised |-> TRUE, tests |-> {}]

\* form_ok: every input of the rendered form holds a number (float(el.value))
GetUserConfig(selected_test, form_ok) ==
    IF selected_test \notin Tests THEN Raised
    ELSE IF ~form_ok THEN Raised
    ELSE [raised |-> FALSE, tests |-> {selected_test}]

\* default_tests: the tests qc_config.json configures
QcConfigFor(selected_test, use_defaults, form_ok, default_tests) ==
    IF use_defaults
    THEN [raised |-> FALSE, tests |-> default_tests]
    ELSE GetUserConfig(selected_test, form_ok)

(***************************************************************************)
(* The engine, QcConfig.run, lines 174-179: outside the repository.  It    *)
(* returns one flag per row (1 pass, 2 not run, 3 suspect, 4 fail, and 9   *)
(* for a row whose value is missing), or raises.                           *)
(***************************************************************************)
PASS == "1"
NOT_RUN == "2"
SUSPECT == "3"
FAIL == "4"
MISSING == "9"
ValueFlags == {PASS, NOT_RUN, SUSPECT, FAIL}

IsTimeText(v) == v \in {PaddedTime, CleanTime, BadTime}

\* The column df[variable], line 176.
ColumnOf(df, col) == [i \in 1..Len(df.rows) |-> df.rows[i][col]]

\* What the engine may answer for the observations obs: it raises, or it
\* returns MISSING for the rows without a value and one of valueFlags for
\* each other row.  Text that is no number cannot be cast to float64.
EngineAnswers(obs, valueFlags) ==
    {[raised |-> TRUE, flags |-> <<>>]}
    \cup
    (IF \E i \in 1..Len(obs) : obs[i].t = "str" /\ IsTimeText(obs[i].v)
     THEN {}
     ELSE {[raised |-> FALSE, flags |-> f] :
             f \in {g \in [1..Len(obs) -> valueFlags \cup {MISSING}] :
                      \A i \in 1..Len(obs) :
                         (g[i] = MISSING) <=> (obs[i].v \in {"nan", "NaT"})}})

(***************************************************************************)
(* run_tests, lines 164-186.                                               *)
(***************************************************************************)
RECURSIVE SortedSeq(_)
SortedSeq(S) ==
    IF S = {} THEN <<>>
    ELSE LET m == CHOOSE x \in S : \A y \in S : x <= y
         IN  <<m>> \o SortedSeq(S \ {m})

\* The row labels of pd.concat([left, right], axis=1): the labels as they
\* are when both sides have the same, else their union, which pandas 1
\* sorts and pandas 2 leaves in order of appearance (input `sorted`).
UnionLabels(L, R, sorted) ==
    IF L = R THEN L
    ELSE IF sorted THEN SortedSeq(Range(L) \cup Range(R))
    ELSE L \o Pick(R, {i \in 1..Len(R) : R[i] \notin Range(L)}, 1)

FlagCell(f) == Cell("flag", f)

\* pd.concat([df, test_results], axis=1), line 185: an outer join on the
\* row labels, test_results being labelled 0..n-1 (line 181).
Concat(df, name, values, sorted) ==
    LET L == df.index
        R == RangeIndex(Len(values))
        labels == UnionLabels(L, R, sorted)
        base(l) == IF \E i \in 1..Len(L) : L[i] = l
                   THEN df.rows[CHOOSE i \in 1..Len(L) : L[i] = l]
                   ELSE [c \in Range(df.columns) |-> NaN]
        flag(l) == IF l \in Range(R) THEN FlagCell(values[l + 1]) ELSE NaN
    IN  Frame(df.columns \o <<name>>, labels,
              [j \in 1..Len(labels) |->
                  [c \in Range(df.columns) \cup {name} |->
                      IF c = name THEN flag(labels[j]) ELSE base(labels[j])[c]]])

\* result.set_index(x_var), line 186: the column becomes the row labels
\* and is no longer a column.
Without(seq, x) == SelectSeq(seq, LAMBDA c : c # x)

SetIndex(df, x_var) ==
    Frame(Without(df.columns, x_var), ColumnOf(df, x_var),
          [i \in 1..Len(df.rows) |->
              [c \in (DOMAIN df.rows[i]) \ {x_var} |-> df.rows[i][c]]])

RunRaised == [raised |-> TRUE, df |-> NoFrame]

\* lib: the answers of what lies outside: form_ok and default_tests (the
\* form and qc_config.json), eng (the engine), sorted (the pandas at hand).
RunTests(df, variable, selected_test, x_var, y_var, use_defaults, lib) ==
    LET cfg == QcConfigFor(selected_test, use_defaults, lib.form_ok,
                           lib.default_tests)
    IN  IF cfg.raised THEN RunRaised
        ELSE IF {variable, x_var, y_var} \ Range(df.columns) # {} THEN RunRaised
        ELSE IF lib.eng.raised THEN RunRaised
        ELSE IF selected_test \notin cfg.tests THEN RunRaised
        ELSE [raised |-> FALSE,
              df |-> SetIndex(Concat(df, selected_test, lib.eng.flags,
                                     lib.sorted), x_var)]

(***************************************************************************)
(* make_mask, lines 188-197.                                               *)
(***************************************************************************)
Masked == Cell("masked", "--")

NoMask == [raised |-> TRUE, qc_pass |-> <<>>, qc_suspect |-> <<>>,
           qc_fail |-> <<>>, qc_notrun |-> <<>>]

\* np.ma.masked_where(mask != code, obs)
MaskedWhereNot(m, code, obs) ==
    [i \in 1..Len(obs) |-> IF m[i].v # code THEN Masked ELSE obs[i]]

\* A mask whose suspect bucket also takes the failed rows.
MakeMaskOverlap(df, res, variable, qc_test) ==
    LET obs == ColumnOf(df, variable)
        m == ColumnOf(res, qc_test)
    IN  IF Len(m) # Len(obs) THEN NoMask
        ELSE [raised |-> FALSE,
              qc_pass |-> MaskedWhereNot(m, PASS, obs),
              qc_suspect |-> [i \in 1..Len(obs) |->
                                 IF m[i].v \in {SUSPECT, FAIL}
                                 THEN obs[i] ELSE Masked],
              qc_fail |-> MaskedWhereNot(m, FAIL, obs),
              qc_notrun |-> MaskedWhereNot(m, NOT_RUN, obs)]

\* masked_where raises IndexError when mask and obs differ in length.
MakeMask(df, res, variable, qc_test) ==
    LET obs == ColumnOf(df, variable)
        m == ColumnOf(res, qc_test)
    IN  IF Len(m) # Len(obs) THEN NoMask
        ELSE [raised |-> FALSE,
              qc_pass |-> MaskedWhereNot(m, PASS, obs),
              qc_suspect |-> MaskedWhereNot(m, SUSPECT, obs),
              qc_fail |-> MaskedWhereNot(m, FAIL, obs),
              qc_notrun |-> MaskedWhereNot(m, NOT_RUN, obs)]

(***************************************************************************)
(* result.to_csv(index=False), line 347, and reading the text back.        *)
(***************************************************************************)
NoCsv == [header |-> <<>>, lines |-> <<>>]

\* The header line holds the columns; the row labels are not written.
ToCsv(res) ==
    [header |-> res.columns,
     lines |-> [i \in 1..Len(res.rows) |->
                  [j \in 1..Len(res.columns) |-> res.rows[i][res.columns[j]].v]]]

\* pd.read_csv of that text: its columns and its number of rows.
ParsedColumns(text) == text.header
ParsedRowCount(text) == Len(text.lines)

(***************************************************************************)
(* The body of plot after the dataset check, lines 215-305, and the body   *)
(* of download_processed_data after its check, lines 341-347.              *)
(***************************************************************************)
Selection(variable, x_var, y_var) ==
    [variable |-> variable, x_var |-> x_var, y_var |-> y_var]

\* Lines 221-231: an empty variable select falls back to the example's names.
NamesUsed(sel) ==
    IF sel.variable = ""
    THEN Selection(DefaultVariable, DefaultX, DefaultY)
    ELSE sel

\* What plot does to df and what it computes; raised: the except clause ran.
PlotBody(df, sel, qc_test, use_defaults, lib) ==
    LET names == NamesUsed(sel)
        conv == ConvertTime(df, names.x_var, lib.lenient)
        run == RunTests(conv.df, names.variable, qc_test, names.x_var,
                        names.y_var, use_defaults, lib)
        mk == MakeMask(conv.df, run.df, names.variable, qc_test)
    IN  IF conv.raised
        THEN [raised |-> TRUE, df |-> conv.df, result |-> NoFrame, mask |-> NoMask]
        ELSE IF run.raised
        THEN [raised |-> TRUE, df |-> conv.df, result |-> NoFrame, mask |-> NoMask]
        ELSE [raised |-> mk.raised, df |-> conv.df, result |-> run.df, mask |-> mk]

\* What download computes; raised: run_tests raised, and nothing catches it.
DownloadBody(df, sel, qc_test, lib) ==
    LET run == RunTests(df, sel.variable, qc_test, sel.x_var, sel.y_var,
                        FALSE, lib)
    IN  IF run.raised
        THEN [raised |-> TRUE, result |-> NoFrame, csv |-> NoCsv]
        ELSE [raised |-> FALSE, result |-> run.df, csv |-> ToCsv(run.df)]

\* The tests the model's user selects.
SelectableTests == {"gross_range_test", "spike_test"}

\* The answers of the form, the bundled configuration, the engine and the
\* libraries that a run on df with these names can meet.
LibAnswers(df, sel, qc_test, use_defaults, converts, valueFlags) ==
    LET names == NamesUsed(sel)
        lenients == IF converts /\ names.x_var # DefaultX THEN BOOLEAN ELSE {FALSE}
        sorts == IF df.index # RangeIndex(Len(df.index)) THEN BOOLEAN ELSE {FALSE}
        forms == IF use_defaults THEN {TRUE} ELSE BOOLEAN
        defaults == IF use_defaults THEN {Tests, Tests \ {qc_test}} ELSE {Tests}
        seen(l) == IF converts THEN ConvertTime(df, names.x_var, l).df ELSE df
    IN  UNION {
          {[form_ok |-> f, default_tests |-> d, eng |-> e, sorted |-> s, lenient |-> l] :
              f \in forms, d \in defaults, s \in sorts,
              e \in EngineAnswers(ColumnOf(seen(l), names.variable), valueFlags)} :
          l \in lenients}

(***************************************************************************)
(* SpecSniff: the sniffing block applied to one content.                   *)
(***************************************************************************)
Pad(n) == [i \in 1..n |-> "x"]

Separators == {",", ";", "\t"}

Bodies == UNION {[1..n -> Separators] : n \in 0..MaxBody}

\* The two sample texts of the specification's section 8.
SampleTie == <<"a", ",", "b", ";", "c", ";", "d">>
SampleSemi == <<"a", ";", "b", ";", "c", ",", "d">>

SniffContents ==
    {Pad(n) \o b : n \in {0, SampleLen - 2, SampleLen}, b \in Bodies}
    \cup {SampleTie, SampleSemi}

PipeIdle ==
    /\ call = None /\ ppc = "idle" /\ pdf = NoFrame /\ result = NoFrame
    /\ mask = NoMask /\ csv = NoCsv

SniffIdle == content = <<>> /\ delimiter = None

UiIdle ==
    /\ uploaded_df = NoFrame /\ options = <<>>
    /\ select_value = "gross_range_test" /\ tasks = <<>>
    /\ loader_display = "none" /\ message = "no_file_warning"
    /\ absent = {} /\ pristine = NoFrame /\ last_op = "setup"
    /\ outcome = "ok" /\ engine_without_df = FALSE

SniffInit ==
    /\ content \in SniffContents
    /\ delimiter = None
    /\ PipeIdle /\ UiIdle

\* Lines 56-63.
Sniff ==
    /\ delimiter = None
    /\ delimiter' = SniffDelimiter(Sample(content))
    /\ UNCHANGED <<content, pipeVars, uiVars>>

SniffNext == Sniff

SpecSniff == SniffInit /\ [][SniffNext]_vars

\* The number of the first 1024 characters of text that are ch.
CountWithin(text, ch) ==
    Cardinality({i \in DOMAIN text : i <= SampleLen /\ text[i] = ch})

\* C4: once the sniffing has run, the delimiter is the semicolon if the
\* first 1024 characters hold strictly more semicolons than commas, else
\* the tab if they hold strictly more tabs than commas, else the comma; a
\* tie, or no separator at all, gives the comma.
C4_SniffRule ==
    delimiter # None =>
        LET semis == CountWithin(content, ";")
            tabs == CountWithin(content, "\t")
            commas == CountWithin(content, ",")
        IN  /\ delimiter = (IF semis > commas THEN ";"
                            ELSE IF tabs > commas THEN "\t" ELSE ",")
            /\ (semis = commas /\ tabs = commas) => delimiter = ","
            /\ (semis = 0 /\ tabs = 0) => delimiter = ","

\* C4's case: a content longer than the sample whose separators beyond
\* character 1024 would change the answer, and a tie inside the sample.
C4_Witness ==
    /\ delimiter = ","
    /\ Len(content) > SampleLen
    /\ Count(content, ";") > Count(content, ",")
    /\ CountWithin(content, ";") = CountWithin(content, ",")
    /\ CountWithin(content, ",") > 0

\* C5 as stated: a,b;c;d does not sniff as semicolon and falls back to
\* the comma, and a;b;c,d sniffs as semicolon.
C5_AsStated ==
    delimiter # None =>
        /\ content = SampleTie => delimiter = ","
        /\ content = SampleSemi => delimiter = ";"

\* C5 amended: a,b;c;d holds one comma and two semicolons, so both sample
\* texts sniff as semicolon.
C5_BothSemicolon ==
    delimiter # None =>
        /\ content = SampleTie => delimiter = ";"
        /\ content = SampleSemi => delimiter = ";"

\* C5's case: the sniffing has run on the first sample text.
C5_Witness == content = SampleTie /\ delimiter # None

(***************************************************************************)
(* SpecPipe: the pipeline of plot, or of download, applied once to a       *)
(* dataset that ingestion stored, with names picked in the three selects.  *)
(***************************************************************************)
PipeFiles == Files(1..MaxRows, {0, 1}, Gaps(MaxRows))

Ingested == {Ingest(f).df : f \in {g \in PipeFiles : ~Ingest(g).raised}}

PipeFlows == {"plot", "example", "download"}

PipeInit ==
    /\ \E flow \in PipeFlows, df \in Ingested,
          variable \in Range(Columns), x_var \in Range(Columns),
          qc_test \in SelectableTests :
          LET sel == Selection(variable, x_var, DefaultY)
          IN  \E lib \in LibAnswers(df, sel, qc_test, flow = "example",
                                    flow # "download", ValueFlags) :
                /\ call = [flow |-> flow, sel |-> sel, qc_test |-> qc_test,
                           use_defaults |-> (flow = "example"), lib |-> lib]
                /\ pdf = df
    /\ ppc = "start"
    /\ result = NoFrame /\ mask = NoMask /\ csv = NoCsv
    /\ SniffIdle /\ UiIdle

\* plot, lines 215-305, on pdf.
PipePlot ==
    /\ ppc = "start" /\ call.flow # "download"
    /\ LET out == PlotBody(pdf, call.sel, call.qc_test, call.use_defaults, call.lib)
       IN  /\ pdf' = out.df
           /\ result' = out.result
           /\ mask' = out.mask
           /\ ppc' = IF out.raised THEN "raised" ELSE "plotted"
    /\ UNCHANGED <<call, csv, sniffVars, uiVars>>

\* download_processed_data, lines 341-347, on pdf.
PipeDownload ==
    /\ ppc = "start" /\ call.flow = "download"
    /\ LET out == DownloadBody(pdf, call.sel, call.qc_test, call.lib)
       IN  /\ result' = out.result
           /\ csv' = out.csv
           /\ ppc' = IF out.raised THEN "raised" ELSE "downloaded"
    /\ UNCHANGED <<call, pdf, mask, sniffVars, uiVars>>

PipeNext == PipePlot \/ PipeDownload

SpecPipe == PipeInit /\ [][PipeNext]_vars

\* The buckets of the mask in which row i is not masked.
BucketsHolding(i) ==
    {b \in {"qc_pass", "qc_suspect", "qc_fail", "qc_notrun"} : mask[b][i] # Masked}

\* The number of unmasked values of the four buckets together.
UnmaskedTotal ==
    Cardinality({p \in {"qc_pass", "qc_suspect", "qc_fail", "qc_notrun"}
                         \X (1..Len(pdf.rows)) : mask[p[1]][p[2]] # Masked})

\* C1 as stated: every row of the tested variable is unmasked in exactly
\* one of the four buckets, so the unmasked counts sum to the row count.
C1_AsStated ==
    ppc = "plotted" =>
        /\ \A i \in 1..Len(pdf.rows) : Cardinality(BucketsHolding(i)) = 1
        /\ UnmaskedTotal = Len(pdf.rows)

\* The bucket make_mask compares against a flag.
BucketOf(flag) ==
    IF flag = PASS THEN "qc_pass"
    ELSE IF flag = SUSPECT THEN "qc_suspect"
    ELSE IF flag = FAIL THEN "qc_fail" ELSE "qc_notrun"

\* C1 amended: a row flagged 1, 2, 3 or 4 is unmasked, with its own value,
\* in exactly the bucket of its flag; a row with any other flag (9, a
\* missing value) is masked in all four; so the unmasked counts sum to the
\* number of rows flagged 1 to 4.
C1_PartitionOfFlagged ==
    ppc = "plotted" =>
        LET names == NamesUsed(call.sel)
            flags == ColumnOf(result, call.qc_test)
            obs == ColumnOf(pdf, names.variable)
        IN  /\ \A i \in 1..Len(pdf.rows) :
                  IF flags[i].v \in ValueFlags
                  THEN /\ BucketsHolding(i) = {BucketOf(flags[i].v)}
                       /\ mask[BucketOf(flags[i].v)][i] = obs[i]
                  ELSE BucketsHolding(i) = {}
            /\ UnmaskedTotal =
                  Cardinality({i \in 1..Len(pdf.rows) : flags[i].v \in ValueFlags})

\* C1's case: a plot whose rows carry a missing value and a failed value.
C1_Witness ==
    /\ ppc = "plotted"
    /\ \E i, j \in 1..Len(pdf.rows) :
          /\ ColumnOf(result, call.qc_test)[i].v = MISSING
          /\ ColumnOf(result, call.qc_test)[j].v = FAIL

\* The columns of the dataset handed to run_tests, in the run at hand.
InputColumns == pdf.columns

\* C2 as stated: whatever the row labels of the input, the annotated
\* dataset has as many rows as the input, and its k-th row is the k-th
\* input row with the flag the engine computed for that row.
C2_AsStated ==
    result.kind = "frame" =>
        /\ Len(result.rows) = Len(pdf.rows)
        /\ \A k \in 1..Len(pdf.rows) :
              /\ k <= Len(result.rows)
              /\ \A c \in DOMAIN result.rows[k] :
                    IF c = call.qc_test
                    THEN result.rows[k][c] = FlagCell(call.lib.eng.flags[k])
                    ELSE result.rows[k][c] = pdf.rows[k][c]

\* C3 as stated: the downloaded text read back has every column of the
\* dataset, the x variable included, and exactly one column more.
C3_AsStated ==
    ppc = "downloaded" =>
        /\ Range(InputColumns) \subseteq Range(ParsedColumns(csv))
        /\ Len(ParsedColumns(csv)) = Len(InputColumns) + 1
        /\ ParsedRowCount(csv) = Len(pdf.rows)

(***************************************************************************)
(* Spec: the session.  Every action is one handler run to its end, or to   *)
(* the yield of plot (await asyncio.sleep(0), line 205); the action plot   *)
(* is the rest of the oldest suspended coroutine, from the yield to the    *)
(* end of the handler that awaited it.  The page is taken to have the      *)
(* elements setup() and plot dereference (select, the three variable       *)
(* selects, message, loadingIndicator); FileReader's read and its onload   *)
(* are one step.                                                           *)
(***************************************************************************)
\* Elements the handlers look up that setup did not need to start.
OptionalElements == {"filename-display"}

\* The files the model's user uploads.
UiFiles == Files({MaxRows}, {0}, {0, 1})

\* The names the model's user picks in the three variable selects.
PickedVariables == {DefaultVariable, DefaultX}
PickedX == {DefaultX}
PickedY == {DefaultY}

\* The values of the three selects: "" while they have no option.
Selections ==
    IF options = <<>>
    THEN {Selection("", "", "")}
    ELSE {Selection(v, x, y) : v \in PickedVariables \cap Range(options),
                               x \in PickedX \cap Range(options),
                               y \in PickedY \cap Range(options)}

Task(qc_test, use_defaults) == [qc_test |-> qc_test, use_defaults |-> use_defaults]

\* The state once the module has run setup(), lines 375-401 and 434.
Init ==
    /\ uploaded_df = NoFrame
    /\ options = <<>>
    /\ select_value \in SelectableTests
    /\ tasks = <<>>
    /\ absent \in SUBSET OptionalElements
    /\ loader_display \in {"none", "block"}
    /\ message = "no_file_warning"
    /\ pristine = NoFrame
    /\ last_op = "setup"
    /\ outcome = "ok"
    /\ engine_without_df = FALSE
    /\ SniffIdle /\ PipeIdle

\* update_variable_options, lines 318-332: the options of the three selects.
UpdateVariableOptions(df) == IF df.kind = "none" THEN options ELSE df.columns

\* handle_file_upload and the onload it registers, lines 41-99.
handle_file_upload ==
    \E file \in UiFiles :
        LET ing == Ingest(file)
            named == "filename-display" \notin absent
        IN  /\ uploaded_df' = IF ing.raised THEN uploaded_df ELSE ing.df
            /\ pristine' = IF ing.raised THEN pristine ELSE ing.df
            /\ options' = IF ing.raised THEN options ELSE UpdateVariableOptions(ing.df)
            /\ message' = IF ing.raised \/ ~named THEN "load_failed" ELSE "load_ok"
            /\ outcome' = IF ing.raised \/ ~named THEN "handled" ELSE "ok"
            /\ last_op' = "upload"
            /\ UNCHANGED <<select_value, tasks, loader_display, absent,
                           engine_without_df, sniffVars, pipeVars>>

\* selectChange and render_test_inputs, lines 108-128 and 313-316.
selectChange ==
    \E t \in SelectableTests :
        /\ select_value' = t
        /\ last_op' = "select"
        /\ outcome' = "ok"
        /\ UNCHANGED <<uploaded_df, options, tasks, loader_display, message, absent,
                       pristine, engine_without_df, sniffVars, pipeVars>>

\* Lines 201-203.
ShowLoader == "block"

\* The finally clause left out: the indicator is hidden on success only.
HideLoaderOnSuccess(raised) == IF raised THEN loader_display ELSE "none"

\* Lines 310-312: the finally clause of plot.
HideLoader(raised) == "none"

\* The test for None left out.
NeverNoData == FALSE

\* uploaded_df is None, line 366
RunNoData == uploaded_df.kind = "none"

\* uploaded_df is None, line 208
PlotNoData == uploaded_df.kind = "none"

\* uploaded_df is None, line 337
DownloadNoData == uploaded_df.kind = "none"

\* run_qc_test, lines 363-373, up to the yield of the plot it awaits.
run_qc_test ==
    IF RunNoData
    THEN /\ message' = "no_upload_found"
         /\ last_op' = "run"
         /\ outcome' = "ok"
         /\ UNCHANGED <<uploaded_df, options, select_value, tasks, loader_display,
                        absent, pristine, engine_without_df, sniffVars, pipeVars>>
    ELSE /\ Len(tasks) < MaxTasks
         /\ tasks' = Append(tasks, Task(select_value, FALSE))
         /\ loader_display' = ShowLoader
         /\ last_op' = "run"
         /\ outcome' = "ok"
         /\ UNCHANGED <<uploaded_df, options, select_value, message, absent, pristine,
                        engine_without_df, sniffVars, pipeVars>>

\* handle_example_btn, lines 414-427, up to the yield of the plot it awaits.
handle_example_btn ==
    /\ Len(tasks) < MaxTasks
    /\ \E answer \in ExampleAnswers(MaxRows) :
          IF answer.kind = "error"
          THEN /\ message' = "example_error"
               /\ outcome' = "handled"
               /\ UNCHANGED <<uploaded_df, pristine, tasks, loader_display>>
          ELSE /\ uploaded_df' = answer
               /\ pristine' = answer
               /\ message' = "default_file_info"
               /\ tasks' = Append(tasks, Task(select_value, TRUE))
               /\ loader_display' = ShowLoader
               /\ outcome' = "ok"
    /\ last_op' = "example"
    /\ UNCHANGED <<options, select_value, absent, engine_without_df, sniffVars, pipeVars>>

\* plot from its yield on, lines 206-312, for the oldest suspended coroutine.
plot ==
    /\ tasks # <<>>
    /\ LET task == Head(tasks)
       IN  IF PlotNoData
           THEN /\ message' = "no_file_uploaded"
                /\ loader_display' = HideLoader(FALSE)
                /\ outcome' = "ok"
                /\ UNCHANGED <<uploaded_df, engine_without_df>>
           ELSE \E sel \in Selections :
                \E lib \in LibAnswers(uploaded_df, sel, task.qc_test,
                                      task.use_defaults, TRUE, {PASS}) :
                   LET out == PlotBody(uploaded_df, sel, task.qc_test,
                                       task.use_defaults, lib)
                   IN  /\ uploaded_df' = out.df
                       /\ message' = IF out.raised THEN "plot_error"
                                     ELSE IF sel.variable = ""
                                          THEN "default_file_info"
                                          ELSE "uploaded_used"
                       /\ loader_display' = HideLoader(out.raised)
                       /\ outcome' = IF out.raised THEN "handled" ELSE "ok"
                       /\ engine_without_df' =
                             (engine_without_df \/ uploaded_df.kind = "none")
    /\ tasks' = Tail(tasks)
    /\ last_op' = "plot"
    /\ UNCHANGED <<options, select_value, absent, pristine, sniffVars, pipeVars>>

\* download_processed_data, lines 334-361.
download_processed_data ==
    /\ IF DownloadNoData
       THEN /\ message' = "no_data_to_download"
            /\ outcome' = "ok"
            /\ UNCHANGED engine_without_df
       ELSE \E sel \in Selections :
            \E lib \in LibAnswers(uploaded_df, sel, select_value, FALSE, FALSE,
                                  {PASS}) :
               LET out == DownloadBody(uploaded_df, sel, select_value, lib)
               IN  /\ message' = IF out.raised THEN message ELSE "download_ok"
                   /\ outcome' = IF out.raised THEN "escaped" ELSE "ok"
                   /\ engine_without_df' =
                         (engine_without_df \/ uploaded_df.kind = "none")
    /\ last_op' = "download"
    /\ UNCHANGED <<uploaded_df, options, select_value, tasks, loader_display, absent,
                   pristine, sniffVars, pipeVars>>

Next ==
    \/ handle_file_upload
    \/ selectChange
    \/ run_qc_test
    \/ handle_example_btn
    \/ plot
    \/ download_processed_data

Spec == Init /\ [][Next]_vars

\* C6 as stated: an upload that ends with 'Failed to load file' leaves
\* uploaded_df as it was before the upload.
C6_AsStated ==
    [][(last_op' = "upload" /\ message' = "load_failed")
          => uploaded_df' = uploaded_df]_vars

\* C7 as stated: no handler lets an exception out to the host.
C7_AsStated == outcome # "escaped"

\* The messages of run_qc_test and download_processed_data for no dataset.
NoDatasetMessages == {"no_upload_found", "no_data_to_download"}

\* C8: run_tests is never entered while uploaded_df is None; a run or a
\* download clicked while it is None shows its no-dataset message, starts
\* no plot and changes no dataset; and uploaded_df, once set, is never
\* None again.
C8_NoEngineWithoutDataset ==
    [][/\ ~engine_without_df'
       /\ (uploaded_df.kind = "none" /\ last_op' \in {"run", "download"})
             => /\ message' \in NoDatasetMessages
                /\ tasks' = tasks
                /\ uploaded_df' = uploaded_df
       /\ uploaded_df.kind = "frame" => uploaded_df'.kind = "frame"]_vars

\* C8's case: run was clicked while there is no dataset.
C8_Witness ==
    /\ last_op = "run" /\ uploaded_df.kind = "none"
    /\ message = "no_upload_found"

\* C9 as stated: the session's dataset is what ingestion stored.
C9_AsStated == uploaded_df = pristine

\* C10: a step that starts a plot shows the indicator, a step that ends
\* one hides it, and no other step touches it; so whenever the last
\* suspended plot has ended the indicator is hidden, in whatever order
\* run and example-data clicks and resumptions interleave.
C10_LoaderHidden ==
    [][/\ Len(tasks') > Len(tasks) => loader_display' = "block"
       /\ Len(tasks') < Len(tasks) => loader_display' = "none"
       /\ tasks' = tasks => loader_display' = loader_display]_vars

\* C10's case: a plot whose except clause ran has ended while a plot
\* started before it ended is still suspended, and the indicator is hidden.
C10_Witness ==
    /\ last_op = "plot" /\ outcome = "handled"
    /\ Len(tasks) = 1
    /\ loader_display = "none"

====
